---- MODULE Spec2Model ----
(***************************************************************************)
(* Model of clippy_lints/src/formatting.rs: the early lint pass            *)
(* `Formatting` (SUSPICIOUS_ASSIGNMENT_FORMATTING and                      *)
(* SUSPICIOUS_ELSE_FORMATTING).                                            *)
(*                                                                         *)
(* Source text is a sequence of one-character strings; a span is a pair of *)
(* byte offsets into the source buffer plus an expansion id.               *)
(***************************************************************************)
EXTENDS Integers, Sequences, FiniteSets, Bags, TLC

VARIABLES cx, root, gapLex, self, queue, last, sink, aborted, run, sink1

vars == <<cx, root, gapLex, self, queue, last, sink, aborted, run, sink1>>

----------------------------------------------------------------------------
(* Bounds of the model *)

\* longest gap (in lexical items) between two nodes of a single-node input
MaxGapItems == 3
\* longest statement list of a general block
MaxStmts == 3
\* longest chain of consecutive `if` statements
MaxChain == 4
\* longest gap (in lexical items) of the trees the pass is run over twice
PassGapItems == 1
\* longest statement list of the blocks the pass is run over twice
PassStmts == 2

----------------------------------------------------------------------------
(* Option<T> *)

None == [some |-> FALSE]
Some(v) == [some |-> TRUE, val |-> v]

----------------------------------------------------------------------------
(* Strings: the str methods the matchers use *)

RECURSIVE Concat(_)
Concat(ss) == IF ss = <<>> THEN <<>> ELSE Head(ss) \o Concat(Tail(ss))

\* a test for the character anywhere in the text
contains_instead_of_ends_with(s, c) == \E i \in 1..Len(s) : s[i] = c

\* str::ends_with(char)
ends_with(s, c) == Len(s) > 0 /\ s[Len(s)] = c

\* str::contains(char)
contains(s, c) == \E i \in 1..Len(s) : s[i] = c

\* str::find(&str): byte offset of the first occurrence
find(s, pat) ==
    LET hits == {i \in 1..(Len(s) - Len(pat) + 1) : SubSeq(s, i, i + Len(pat) - 1) = pat}
    IN  IF hits = {} THEN None
        ELSE Some((CHOOSE i \in hits : \A j \in hits : i <= j) - 1)

\* &s[pos..]
slice_from(s, pos) == SubSeq(s, pos + 1, Len(s))

ELSE_KW == <<"e", "l", "s", "e">>
NEWLINE == "\n"
EQ_CHAR == "="

----------------------------------------------------------------------------
(* Spans, the codemap and the helpers of utils *)

NO_EXPANSION == "NO_EXPANSION"
ExpnIds == {NO_EXPANSION, "expn1", "expn2"}

Span(lo, hi, expn) == [lo |-> lo, hi |-> hi, expn_id |-> expn]

\* syntax::codemap::mk_sp
mk_sp(lo, hi) == Span(lo, hi, NO_EXPANSION)

\* utils::differing_macro_contexts
differing_macro_contexts(lhs, rhs) == rhs.expn_id # lhs.expn_id

\* utils::in_macro
in_macro(c, span) == span.expn_id # NO_EXPANSION

\* utils::snippet_opt: codemap().span_to_snippet(span).ok()
snippet_opt(c, span) ==
    IF ~c.src.some \/ span.lo > span.hi \/ span.hi > Len(c.src.val)
    THEN None
    ELSE Some(SubSeq(c.src.val, span.lo + 1, span.hi))

----------------------------------------------------------------------------
(* Lints *)

SUSPICIOUS_ASSIGNMENT_FORMATTING == "SuspiciousAssignmentFormatting"
SUSPICIOUS_ELSE_FORMATTING == "SuspiciousElseFormatting"

\* ast::UnOp::to_string
UnOp_to_string(op) ==
    CASE op = "Deref" -> "*"
      [] op = "Not" -> "!"
      [] op = "Neg" -> "-"

\* utils::span_note_and_lint: the Finding handed to the diagnostic sink
span_note_and_lint(lint, sp, msg, note_span, note) ==
    [rule |-> lint, primary_span |-> sp, primary_message |-> msg,
     secondary_span |-> note_span, secondary_message |-> note]

\* what a matcher returns: the Findings it made, and whether it panicked
Ret(lints, panicked) == [lints |-> lints, panicked |-> panicked]
NoLint == Ret(<<>>, FALSE)

----------------------------------------------------------------------------
(* The matchers *)

\* matches `if` and forgets `if let`
unsugar_if_without_if_let(expr) ==
    IF expr.node = "If"
    THEN Some([then |-> expr.then, else_ |-> expr.else_])
    ELSE None

unsugar_if(expr) ==
    IF expr.node \in {"If", "IfLet"}
    THEN Some([then |-> expr.then, else_ |-> expr.else_])
    ELSE None

\* reports the operator gap instead of the narrower gap
check_assign_reports_eq_span(c, expr) ==
    IF expr.node # "Assign" THEN NoLint
    ELSE
    LET lhs == expr.lhs
        rhs == expr.rhs
    IN  IF differing_macro_contexts(lhs.span, rhs.span) \/ in_macro(c, lhs.span)
        THEN NoLint
        ELSE
        LET eq_span == mk_sp(lhs.span.hi, rhs.span.lo)
        IN  IF rhs.node # "Unary" THEN NoLint
            ELSE
            LET eq_snippet == snippet_opt(c, eq_span)
            IN  IF ~eq_snippet.some THEN NoLint
                ELSE
                LET op == UnOp_to_string(rhs.op)
                IN  IF ends_with(eq_snippet.val, EQ_CHAR)
                    THEN Ret(<<span_note_and_lint(SUSPICIOUS_ASSIGNMENT_FORMATTING,
                                                  eq_span,
                                                  <<"looks like", op, "=">>,
                                                  eq_span,
                                                  <<"use either", op, "= or =", op>>)>>,
                             FALSE)
                    ELSE NoLint

check_assign(c, expr) ==
    IF expr.node # "Assign" THEN NoLint
    ELSE
    LET lhs == expr.lhs
        rhs == expr.rhs
    IN  IF differing_macro_contexts(lhs.span, rhs.span) \/ in_macro(c, lhs.span)
        THEN NoLint
        ELSE
        LET eq_span == mk_sp(lhs.span.hi, rhs.span.lo)
        IN  IF rhs.node # "Unary" THEN NoLint
            ELSE
            LET eq_snippet == snippet_opt(c, eq_span)
            IN  IF ~eq_snippet.some THEN NoLint
                ELSE
                LET op == UnOp_to_string(rhs.op)
                    eqop_span == mk_sp(lhs.span.hi, rhs.operand.span.lo)
                IN  IF ends_with(eq_snippet.val, EQ_CHAR)
                    THEN Ret(<<span_note_and_lint(SUSPICIOUS_ASSIGNMENT_FORMATTING,
                                                  eqop_span,
                                                  <<"looks like", op, "=">>,
                                                  eqop_span,
                                                  <<"use either", op, "= or =", op>>)>>,
                             FALSE)
                    ELSE NoLint

\* does not require the else branch to be an if
check_else_if_any_else(c, expr) ==
    LET u == unsugar_if(expr)
    IN  IF ~u.some THEN NoLint
        ELSE IF ~u.val.else_.some THEN NoLint
        ELSE
        LET then == u.val.then
            else_ == u.val.else_.val
        IN  IF ~(~differing_macro_contexts(then.span, else_.span)
                 /\ ~in_macro(c, then.span))
            THEN NoLint
            ELSE
            LET else_span == mk_sp(then.span.hi, else_.span.lo)
                else_snippet == snippet_opt(c, else_span)
            IN  IF ~else_snippet.some THEN NoLint
                ELSE
                LET else_pos == find(else_snippet.val, ELSE_KW)
                IN  IF ~else_pos.some
                    THEN Ret(<<>>, TRUE)
                    ELSE IF contains(slice_from(else_snippet.val, else_pos.val), NEWLINE)
                    THEN Ret(<<span_note_and_lint(SUSPICIOUS_ELSE_FORMATTING,
                                                  else_span,
                                                  "this is an else if but the formatting might hide it",
                                                  else_span,
                                                  "remove the else or remove the new line")>>,
                             FALSE)
                    ELSE NoLint

check_else_if(c, expr) ==
    LET u == unsugar_if(expr)
    IN  IF ~u.some THEN NoLint
        ELSE IF ~u.val.else_.some THEN NoLint
        ELSE
        LET then == u.val.then
            else_ == u.val.else_.val
        IN  IF ~(unsugar_if(else_).some
                 /\ ~differing_macro_contexts(then.span, else_.span)
                 /\ ~in_macro(c, then.span))
            THEN NoLint
            ELSE
            LET else_span == mk_sp(then.span.hi, else_.span.lo)
                else_snippet == snippet_opt(c, else_span)
            IN  IF ~else_snippet.some THEN NoLint
                ELSE
                LET else_pos == find(else_snippet.val, ELSE_KW)
                IN  IF ~else_pos.some
                    THEN Ret(<<>>, TRUE)    \* expect(..) panics
                    ELSE IF contains(slice_from(else_snippet.val, else_pos.val), NEWLINE)
                    THEN Ret(<<span_note_and_lint(SUSPICIOUS_ELSE_FORMATTING,
                                                  else_span,
                                                  "this is an else if but the formatting might hide it",
                                                  else_span,
                                                  "remove the else or remove the new line")>>,
                             FALSE)
                    ELSE NoLint

\* does not ask whether the first span is in a macro
check_consecutive_ifs_without_in_macro(c, first, second) ==
    IF ~differing_macro_contexts(first.span, second.span)
       /\ unsugar_if(first).some /\ unsugar_if(second).some
    THEN
        LET else_span == mk_sp(first.span.hi, second.span.lo)
            else_snippet == snippet_opt(c, else_span)
        IN  IF ~else_snippet.some THEN NoLint
            ELSE IF ~contains(else_snippet.val, NEWLINE)
            THEN Ret(<<span_note_and_lint(SUSPICIOUS_ELSE_FORMATTING,
                                          else_span,
                                          "this looks like an else if but the else is missing",
                                          else_span,
                                          "add the missing else or add a new line")>>,
                     FALSE)
            ELSE NoLint
    ELSE NoLint

check_consecutive_ifs(c, first, second) ==
    IF ~differing_macro_contexts(first.span, second.span) /\ ~in_macro(c, first.span)
       /\ unsugar_if(first).some /\ unsugar_if(second).some
    THEN
        LET else_span == mk_sp(first.span.hi, second.span.lo)
            else_snippet == snippet_opt(c, else_span)
        IN  IF ~else_snippet.some THEN NoLint
            ELSE IF ~contains(else_snippet.val, NEWLINE)
            THEN Ret(<<span_note_and_lint(SUSPICIOUS_ELSE_FORMATTING,
                                          else_span,
                                          "this looks like an else if but the else is missing",
                                          else_span,
                                          "add the missing else or add a new line")>>,
                     FALSE)
            ELSE NoLint
    ELSE NoLint

\* also matches a first statement that ends with a semicolon
check_window_semi_first(c, w0, w1) ==
    IF w0.node \in {"Expr", "Semi"} /\ w1.node \in {"Expr", "Semi"}
    THEN check_consecutive_ifs(c, w0.expr, w1.expr)
    ELSE NoLint

\* the arm of the match in check_block for one window of two statements
check_window(c, w0, w1) ==
    IF w0.node = "Expr" /\ w1.node \in {"Expr", "Semi"}
    THEN check_consecutive_ifs(c, w0.expr, w1.expr)
    ELSE NoLint

\* slice::chunks(2): the pairs that do not overlap
chunks(stmts) ==
    [i \in 1..(Len(stmts) \div 2) |-> <<stmts[2 * i - 1], stmts[2 * i]>>]

\* slice::windows(2): every pair of neighbours, in order
windows(stmts) ==
    [i \in 1..(Len(stmts) - 1) |-> <<stmts[i], stmts[i + 1]>>]

\* EarlyLintPass::check_block: returns the pass and what it handed to the sink
check_block(s, c, block) ==
    LET ws == windows(block.stmts)
        rs == [i \in DOMAIN ws |-> check_window(c, ws[i][1], ws[i][2])]
    IN  [self |-> s]
        @@ Ret(Concat([i \in DOMAIN rs |-> rs[i].lints]),
               \E i \in DOMAIN rs : rs[i].panicked)

\* a pass that remembers that it linted and lints once only
check_expr_lints_once(s, c, expr) ==
    LET a == check_assign(c, expr)
        e == check_else_if(c, expr)
        lints == IF s = "linted" THEN <<>> ELSE a.lints \o e.lints
    IN  [self |-> IF lints # <<>> THEN "linted" ELSE s]
        @@ Ret(lints, a.panicked \/ e.panicked)

\* EarlyLintPass::check_expr
check_expr(s, c, expr) ==
    LET a == check_assign(c, expr)
        e == check_else_if(c, expr)
    IN  [self |-> s] @@ Ret(a.lints \o e.lints, a.panicked \/ e.panicked)

----------------------------------------------------------------------------
(* The trees handed to the pass.  A tree is built from the lexical layout   *)
(* of a piece of source: the codemap holds the flattened text and every     *)
(* span indexes it.                                                         *)

Item(tok, text) == [tok |-> tok, text |-> text]
TOK_WS == Item("ws", <<" ">>)
TOK_NL == Item("ws", <<"\n">>)
TOK_EQ == Item("eq", <<"=">>)
TOK_ELSE == Item("else", ELSE_KW)
\* /*=*/
COMMENT_EQ == Item("comment", <<"/", "*", "=", "*", "/">>)
\* a line comment that mentions else, with the line break that ends it
COMMENT_ELSE == Item("comment", <<"/", "/", "e", "l", "s", "e", "\n">>)

AssignGapItems == {TOK_WS, TOK_NL, TOK_EQ, COMMENT_EQ}
ElseGapItems == {TOK_WS, TOK_NL, TOK_ELSE, COMMENT_ELSE}

SeqsUpTo(S, n) == UNION {[1..k -> S] : k \in 0..n}

Flatten(items) == Concat([i \in DOMAIN items |-> items[i].text])

IF_TEXT == <<"i", "f", "{", "}">>

Lit(lo, expn) == [node |-> "Lit", span |-> Span(lo, lo + 1, expn)]

EmptyBlock(lo, expn) == [stmts |-> <<>>, span |-> Span(lo, lo + 2, expn)]

\* `if{}` at lo, with the given else branch
If(kind, lo, hi, expn, else_) ==
    [node |-> kind, span |-> Span(lo, hi, expn),
     then |-> EmptyBlock(lo + 2, expn), else_ |-> else_]

\* ExprKind::Block, a plain `else { }` branch
BlockExpr(lo, expn) ==
    [node |-> "Block", span |-> Span(lo, lo + 2, expn), block |-> EmptyBlock(lo, expn)]

Codemap(text, access) == [src |-> IF access = "no_source" THEN None ELSE Some(text)]

\* the pairs of expansion ids of two neighbouring nodes
ExpnPairs ==
    {<<NO_EXPANSION, NO_EXPANSION>>, <<NO_EXPANSION, "expn1">>, <<"expn1", NO_EXPANSION>>,
     <<"expn1", "expn1">>, <<"expn1", "expn2">>}

\* "ok": spans in source order; "no_source": the file map has no source;
\* "reordered": the second node lies before the first (macro arguments)
Access == {"ok", "no_source", "reordered"}

UnOps == {"Deref", "Not", "Neg"}
RhsKinds == UnOps \cup {"Lit"}

\* `a<gap><op>x` or `a<gap>x`
AssignInput(gap, rhs_kind, expns, access) ==
    LET g == Flatten(gap)
        re == access = "reordered"
        base == IF re THEN 1 ELSE 0
        opw == IF rhs_kind = "Lit" THEN 0 ELSE 1
        lhs == Lit(base, expns[1])
        rlo == base + 1 + Len(g)
        operand == Lit(IF re THEN 0 ELSE rlo + opw, expns[2])
        rhs == IF rhs_kind = "Lit" THEN operand
               ELSE [node |-> "Unary", op |-> rhs_kind, operand |-> operand,
                     span |-> Span(rlo, IF re THEN rlo + 1 ELSE rlo + 2, expns[2])]
        text == (IF re THEN <<"x">> ELSE <<>>) \o <<"a">> \o g
                \o (IF rhs_kind = "Lit" THEN <<>> ELSE <<UnOp_to_string(rhs_kind)>>)
                \o (IF re THEN <<>> ELSE <<"x">>)
    IN  [cx |-> Codemap(text, access),
         root |-> [what |-> "expr",
                   node |-> [node |-> "Assign", lhs |-> lhs, rhs |-> rhs,
                             span |-> Span(0, Len(text), expns[1])]],
         lex |-> gap]

ElseKinds == {"If", "IfLet", "Block"}

\* `if{}<gap>if{}` or `if{}<gap>{}`
IfElseInput(kind, gap, else_kind, expns, access) ==
    LET g == Flatten(gap)
        re == access = "reordered"
        w == IF else_kind = "Block" THEN 2 ELSE 4
        \* in source order the outer `if{}` is first; reordered, the else branch is
        outer_lo == IF re THEN w + Len(g) ELSE 0
        else_lo == IF re THEN 0 ELSE 4 + Len(g)
        else_ == IF else_kind = "Block" THEN BlockExpr(else_lo, expns[2])
                 ELSE If(else_kind, else_lo, else_lo + 4, expns[2], None)
        text == IF re THEN SubSeq(IF_TEXT, 5 - w, 4) \o g \o IF_TEXT
                ELSE IF_TEXT \o g \o SubSeq(IF_TEXT, 5 - w, 4)
    IN  [cx |-> Codemap(text, access),
         root |-> [what |-> "expr",
                   node |-> [node |-> kind, span |-> Span(0, Len(text), expns[1]),
                             then |-> EmptyBlock(outer_lo + 2, expns[1]),
                             else_ |-> Some(else_)]],
         lex |-> gap]

\* `if{}` with no else
IfInput(kind, expn, access) ==
    [cx |-> Codemap(IF_TEXT, access),
     root |-> [what |-> "expr", node |-> If(kind, 0, 4, expn, None)],
     lex |-> <<>>]

----------------------------------------------------------------------------
(* Blocks *)

StmtText(d) ==
    (CASE d.kind \in {"If", "IfLet"} -> IF_TEXT
       [] d.kind = "Lit" -> <<"x">>
       [] d.kind = "Local" -> <<"l">>)
    \o (IF d.stmt = "Expr" THEN <<>> ELSE <<";">>)

\* the statement described by d, its expression starting at lo
Stmt(d, lo) ==
    LET w == Len(StmtText(d))
    IN  CASE d.stmt = "Local" -> [node |-> "Local", span |-> Span(lo, lo + w, d.expn)]
          [] d.kind = "Lit" ->
                [node |-> d.stmt, expr |-> Lit(lo, d.expn), span |-> Span(lo, lo + w, d.expn)]
          [] OTHER ->
                [node |-> d.stmt, expr |-> If(d.kind, lo, lo + 4, d.expn, None),
                 span |-> Span(lo, lo + w, d.expn)]

\* statements i.. of the block, the first starting at lo, wss[j] being the
\* white space after statement j
RECURSIVE BuildStmts(_, _, _, _)
BuildStmts(descs, wss, i, lo) ==
    IF i > Len(descs) THEN [stmts |-> <<>>, text |-> <<>>]
    ELSE LET t == StmtText(descs[i]) \o (IF i < Len(descs) THEN wss[i] ELSE <<>>)
             rest == BuildStmts(descs, wss, i + 1, lo + Len(t))
         IN  [stmts |-> <<Stmt(descs[i], lo)>> \o rest.stmts, text |-> t \o rest.text]

BlockInput(descs, wss, access) ==
    LET b == BuildStmts(descs, wss, 1, 0)
    IN  [cx |-> Codemap(b.text, access),
         root |-> [what |-> "block",
                   node |-> [stmts |-> b.stmts, span |-> Span(0, Len(b.text), NO_EXPANSION)]],
         lex |-> <<>>]

StmtDescs(kinds, expns) ==
    {[stmt |-> s, kind |-> k, expn |-> x] : s \in {"Expr", "Semi"}, k \in kinds, x \in expns}

\* the statements of a general block: an if, possibly from a macro, an if let,
\* another expression, each with or without a semicolon, or a let
AllStmtDescs ==
    StmtDescs({"If"}, {NO_EXPANSION, "expn1"})
    \cup StmtDescs({"IfLet", "Lit"}, {NO_EXPANSION})
    \cup {[stmt |-> "Local", kind |-> "Local", expn |-> NO_EXPANSION]}

BlockWs == {<<" ">>, <<"\n">>}

----------------------------------------------------------------------------
(* The host traversal: it hands every expression to check_expr and every   *)
(* block to check_block, and walks into the children of the node.          *)

ExprNode(e) == [what |-> "expr", node |-> e]
BlockNode(b) == [what |-> "block", node |-> b]

StmtExprs(stmts) ==
    LET es == SelectSeq(stmts, LAMBDA st : st.node \in {"Expr", "Semi"})
    IN  [i \in DOMAIN es |-> ExprNode(es[i].expr)]

Children(n) ==
    IF n.what = "block" THEN StmtExprs(n.node.stmts)
    ELSE LET e == n.node
         IN  CASE e.node = "Assign" -> <<ExprNode(e.lhs), ExprNode(e.rhs)>>
               [] e.node = "Unary" -> <<ExprNode(e.operand)>>
               [] e.node \in {"If", "IfLet"} ->
                    <<BlockNode(e.then)>>
                    \o (IF e.else_.some THEN <<ExprNode(e.else_.val)>> ELSE <<>>)
               [] e.node = "Block" -> <<BlockNode(e.block)>>
               [] OTHER -> <<>>

RECURSIVE SeqToBag(_)
SeqToBag(s) == IF s = <<>> THEN EmptyBag ELSE SetToBag({Head(s)}) (+) SeqToBag(Tail(s))

Remove(q, i) == SubSeq(q, 1, i - 1) \o SubSeq(q, i + 1, Len(q))

NoCall == [what |-> "none", lints |-> <<>>, panicked |-> FALSE]

Formatting == "Formatting"

\* the traversal is about to start on the tree of input in
InitFrom(in) ==
    /\ cx = in.cx
    /\ root = in.root
    /\ gapLex = in.lex
    /\ self = Formatting
    /\ queue = <<in.root>>
    /\ last = NoCall
    /\ sink = EmptyBag
    /\ aborted = FALSE
    /\ run = 1
    /\ sink1 = EmptyBag

\* an expression with gaps of at most n lexical items
InitExpr(n) ==
    \/ \E gap \in SeqsUpTo(AssignGapItems, n), k \in RhsKinds, x \in ExpnPairs, a \in Access :
            InitFrom(AssignInput(gap, k, x, a))
    \/ \E k \in {"If", "IfLet"}, gap \in SeqsUpTo(ElseGapItems, n), e \in ElseKinds,
          x \in ExpnPairs, a \in Access :
            InitFrom(IfElseInput(k, gap, e, x, a))
    \/ \E k \in {"If", "IfLet"}, x \in {NO_EXPANSION, "expn1"}, a \in Access :
            InitFrom(IfInput(k, x, a))

\* a block of at most n statements
InitBlock(n) ==
    \E k \in 0..n :
        \E ds \in [1..k -> AllStmtDescs], ws \in [1..(k - 1) -> BlockWs],
           a \in {"ok", "no_source"} :
            InitFrom(BlockInput(ds, ws, a))

\* k <= MaxChain statements, each an if or if let, none from a macro, no line break
\* in any gap, the source available
InitChain ==
    \E k \in 1..MaxChain :
        \E ds \in [1..k -> StmtDescs({"If", "IfLet"}, {NO_EXPANSION})],
           ws \in [1..(k - 1) -> {<<>>, <<" ">>}] :
            InitFrom(BlockInput(ds, ws, "ok"))

\* the effect of one callback on the traversal
Called(i, r) ==
    /\ self' = r.self
    /\ last' = [what |-> queue[i].what, node |-> queue[i].node,
                lints |-> r.lints, panicked |-> r.panicked]
    /\ sink' = sink (+) SeqToBag(r.lints)
    /\ aborted' = r.panicked
    /\ queue' = Children(queue[i]) \o Remove(queue, i)
    /\ UNCHANGED <<cx, root, gapLex, run, sink1>>

CheckExprAt(i) ==
    /\ ~aborted
    /\ i \in DOMAIN queue
    /\ queue[i].what = "expr"
    /\ Called(i, check_expr(self, cx, queue[i].node))

CheckBlockAt(i) ==
    /\ ~aborted
    /\ i \in DOMAIN queue
    /\ queue[i].what = "block"
    /\ Called(i, check_block(self, cx, queue[i].node))

\* the host runs the pass once more over the unchanged tree
Rerun ==
    /\ ~aborted
    /\ queue = <<>>
    /\ run = 1
    /\ run' = 2
    /\ sink1' = sink
    /\ sink' = EmptyBag
    /\ queue' = <<root>>
    /\ last' = NoCall
    /\ UNCHANGED <<cx, root, gapLex, self, aborted>>

\* one traversal, in the walker's order
CheckExpr == CheckExprAt(1)
CheckBlock == CheckBlockAt(1)

Init == InitExpr(MaxGapItems) \/ InitBlock(MaxStmts)
Next == CheckExpr \/ CheckBlock
Spec == Init /\ [][Next]_vars

\* chains of consecutive ifs
SpecChain == InitChain /\ [][Next]_vars

\* two traversals of one tree, the nodes visited in any order
CheckExprAny == \E i \in DOMAIN queue : CheckExprAt(i)
CheckBlockAny == \E i \in DOMAIN queue : CheckBlockAt(i)
InitPass == InitExpr(PassGapItems) \/ InitBlock(PassStmts)
NextPass == CheckExprAny \/ CheckBlockAny \/ Rerun
SpecPass == InitPass /\ [][NextPass]_vars

----------------------------------------------------------------------------
(* What the properties speak about *)

TopLevel(span) == span.expn_id = NO_EXPANSION

IsIf(e) == e.node \in {"If", "IfLet"}

\* the source text of [lo, hi) can be recovered
GapAvailable(lo, hi) == cx.src.some /\ lo <= hi /\ hi <= Len(cx.src.val)
GapText(lo, hi) == SubSeq(cx.src.val, lo + 1, hi)

LintsOf(rule) == {j \in DOMAIN last.lints : last.lints[j].rule = rule}

LastExpr == last.what = "expr"
LastAssign == LastExpr /\ last.node.node = "Assign"
LastIfElse == LastExpr /\ IsIf(last.node) /\ last.node.else_.some
LastBlock == last.what = "block"

\* the `=` token is the last lexical item before the operator
EqThenOp(lex) == Len(lex) > 0 /\ lex[Len(lex)].tok = "eq"
\* the `=` token is followed by white space only, and by some
EqSpaceOp(lex) ==
    \E i \in DOMAIN lex :
        /\ lex[i].tok = "eq"
        /\ i < Len(lex)
        /\ \A j \in (i + 1)..Len(lex) : lex[j].tok = "ws"

\* an assignment that passes the macro checks and whose gap text is available
AssignCase ==
    /\ LastAssign
    /\ last.node.lhs.span.expn_id = last.node.rhs.span.expn_id
    /\ TopLevel(last.node.lhs.span)
    /\ GapAvailable(last.node.lhs.span.hi, last.node.rhs.span.lo)
    /\ GapText(last.node.lhs.span.hi, last.node.rhs.span.lo) = Flatten(gapLex)

\* C1: an assignment with a unary rhs whose `=` is immediately followed by the
\* operator gets one SuspiciousAssignmentFormatting Finding; with a space
\* between `=` and the operator, or with a rhs that is not unary, it gets none.
C1_AssignLint ==
    AssignCase =>
        LET n == Cardinality(LintsOf(SUSPICIOUS_ASSIGNMENT_FORMATTING))
            unary == last.node.rhs.node = "Unary"
        IN  /\ (unary /\ EqThenOp(gapLex)) => n = 1
            /\ (unary /\ EqSpaceOp(gapLex)) => n = 0
            /\ ~unary => n = 0

C1_Witness ==
    /\ AssignCase
    /\ last.node.rhs.node = "Unary"
    /\ EqThenOp(gapLex)
    /\ Len(gapLex) > 1
    /\ Cardinality(LintsOf(SUSPICIOUS_ASSIGNMENT_FORMATTING)) = 1

\* an `if { } else if { }` that passes the macro checks, its gap text
\* available and holding exactly one `else` token
ElseIfCase ==
    /\ LastIfElse
    /\ IsIf(last.node.else_.val)
    /\ last.node.then.span.expn_id = last.node.else_.val.span.expn_id
    /\ TopLevel(last.node.then.span)
    /\ GapAvailable(last.node.then.span.hi, last.node.else_.val.span.lo)
    /\ GapText(last.node.then.span.hi, last.node.else_.val.span.lo) = Flatten(gapLex)
    /\ Cardinality({i \in DOMAIN gapLex : gapLex[i].tok = "else"}) = 1

\* a line break occurs after the `else` token of the gap
BreakAfterElseToken(lex) ==
    \E i \in DOMAIN lex :
        /\ lex[i].tok = "else"
        /\ \E j \in (i + 1)..Len(lex) : contains(lex[j].text, NEWLINE)

\* C2: an else-if gets a SuspiciousElseFormatting Finding iff a line break
\* occurs after the `else` token and before the nested `if`, whatever comments
\* the gap carries.
C2_ElseIfBreakAfterElseToken ==
    ElseIfCase =>
        (LintsOf(SUSPICIOUS_ELSE_FORMATTING) # {} <=> BreakAfterElseToken(gapLex))

----------------------------------------------------------------------------
(* Blocks: the boundary between statement i and statement i + 1 *)

HasExpr(st) == st.node \in {"Expr", "Semi"}

Boundaries == {i \in 1..(Len(last.node.stmts) - 1) :
                  HasExpr(last.node.stmts[i]) /\ HasExpr(last.node.stmts[i + 1])}
First(i) == last.node.stmts[i].expr
Second(i) == last.node.stmts[i + 1].expr
BoundarySpan(i) == Span(First(i).span.hi, Second(i).span.lo, NO_EXPANSION)
LintsAt(i) == {j \in DOMAIN last.lints : last.lints[j].primary_span = BoundarySpan(i)}

\* two ifs, neither from a macro, the text between them available
IfPair(i) ==
    /\ IsIf(First(i)) /\ IsIf(Second(i))
    /\ TopLevel(First(i).span) /\ TopLevel(Second(i).span)
    /\ GapAvailable(First(i).span.hi, Second(i).span.lo)

OnOneLine(i) == ~contains(GapText(First(i).span.hi, Second(i).span.lo), NEWLINE)

\* C3 as stated: two adjacent ifs on one line get a Finding whichever way
\* each of the two statements is terminated.
C3_AllFourCombinations ==
    LastBlock =>
        \A i \in Boundaries : (IfPair(i) /\ OnOneLine(i)) => LintsAt(i) # {}

\* C3 amended: the pair is examined when the first statement is an expression
\* statement (no semicolon) and the second is either kind; a pair whose first
\* statement is semicolon-terminated gets no Finding.
C3_FirstIsExprStatement ==
    LastBlock =>
        \A i \in Boundaries :
            /\ (last.node.stmts[i].node = "Expr" /\ IfPair(i) /\ OnOneLine(i))
                    => Cardinality(LintsAt(i)) = 1
            /\ last.node.stmts[i].node = "Semi" => LintsAt(i) = {}

C3_Witness ==
    /\ LastBlock
    /\ \E i \in Boundaries :
            /\ last.node.stmts[i].node = "Expr" /\ last.node.stmts[i + 1].node = "Semi"
            /\ IfPair(i) /\ OnOneLine(i) /\ Cardinality(LintsAt(i)) = 1
    /\ \E i \in Boundaries :
            /\ last.node.stmts[i].node = "Semi"
            /\ IfPair(i) /\ OnOneLine(i) /\ LintsAt(i) = {}

\* the block the traversal started on has just been checked
ChainChecked == LastBlock /\ last.node = root.node /\ root.what = "block"

\* C4 as stated: k consecutive ifs with no line break get k - 1 Findings.
C4_ChainAnyTermination ==
    ChainChecked => Len(last.lints) = Len(last.node.stmts) - 1

\* C4 amended: k consecutive ifs with no line break, all but possibly the last
\* of them expression statements (no semicolon), get exactly k - 1 Findings,
\* one per boundary.
C4_ChainOfExprStatements ==
    (/\ ChainChecked
     /\ \A i \in 1..(Len(last.node.stmts) - 1) : last.node.stmts[i].node = "Expr")
    => /\ Len(last.lints) = Len(last.node.stmts) - 1
       /\ \A i \in Boundaries : Cardinality(LintsAt(i)) = 1
       /\ \A j \in DOMAIN last.lints : last.lints[j].rule = SUSPICIOUS_ELSE_FORMATTING

C4_Witness ==
    /\ ChainChecked
    /\ Len(last.node.stmts) = MaxChain
    /\ \A i \in 1..(Len(last.node.stmts) - 1) : last.node.stmts[i].node = "Expr"
    /\ last.node.stmts[MaxChain].node = "Semi"
    /\ Len(last.lints) = MaxChain - 1

----------------------------------------------------------------------------

\* a span of the pair comes from a macro expansion
FromMacro(a, b) == ~TopLevel(a) \/ ~TopLevel(b)

\* C5: when either span of the candidate pair of a matcher has an expansion
\* context other than the top-level one, the matcher makes no Finding,
\* whatever the gap text is.
C5_MacroOrigin ==
    /\ (LastAssign /\ FromMacro(last.node.lhs.span, last.node.rhs.span))
            => LintsOf(SUSPICIOUS_ASSIGNMENT_FORMATTING) = {}
    /\ (LastIfElse /\ FromMacro(last.node.then.span, last.node.else_.val.span))
            => LintsOf(SUSPICIOUS_ELSE_FORMATTING) = {}
    /\ LastBlock =>
            \A i \in Boundaries :
                FromMacro(First(i).span, Second(i).span) => LintsAt(i) = {}

\* both ifs of a pair come from the same macro, they are on one line, the
\* text between them is available, and the pair gets no Finding
C5_Witness ==
    /\ LastBlock
    /\ \E i \in Boundaries :
            /\ last.node.stmts[i].node = "Expr"
            /\ IsIf(First(i)) /\ IsIf(Second(i))
            /\ First(i).span.expn_id = "expn1" /\ Second(i).span.expn_id = "expn1"
            /\ GapAvailable(First(i).span.hi, Second(i).span.lo)
            /\ OnOneLine(i)
            /\ LintsAt(i) = {}

\* C6: no callback aborts the traversal, whatever the tree and whatever the
\* source-text accessor answers.
C6_NeverAborts == ~aborted

\* the pairs check_block hands to check_consecutive_ifs
Handed == {i \in Boundaries : last.node.stmts[i].node = "Expr"}

\* C7: a pair of ifs handed to check_consecutive_ifs, neither from a macro and
\* the text between them available, gets a SuspiciousElseFormatting Finding
\* iff that text holds no line break; a pair with an expression that is not an
\* if gets none.
C7_ConsecutiveIfs ==
    LastBlock =>
        \A i \in Handed :
            /\ IfPair(i) =>
                    /\ Cardinality(LintsAt(i)) = (IF OnOneLine(i) THEN 1 ELSE 0)
                    /\ \A j \in LintsAt(i) : last.lints[j].rule = SUSPICIOUS_ELSE_FORMATTING
            /\ (~IsIf(First(i)) \/ ~IsIf(Second(i))) => LintsAt(i) = {}

C7_Witness ==
    /\ LastBlock
    /\ \E i \in Handed :
            /\ First(i).node = "IfLet" /\ Second(i).node = "If"
            /\ IfPair(i) /\ OnOneLine(i) /\ Cardinality(LintsAt(i)) = 1
    /\ \E i \in Handed : IfPair(i) /\ ~OnOneLine(i) /\ LintsAt(i) = {}

\* C8: an expression that is not an if, an if without else and an if with a
\* plain else block get no Finding from check_else_if, whatever the text
\* before the else branch is.
C8_PlainElse ==
    (/\ LastExpr
     /\ \/ ~IsIf(last.node)
        \/ ~last.node.else_.some
        \/ ~IsIf(last.node.else_.val))
    => /\ LintsOf(SUSPICIOUS_ELSE_FORMATTING) = {}
       /\ ~last.panicked

\* a plain else block, not from a macro, with a line break after the else
C8_Witness ==
    /\ LastIfElse
    /\ last.node.else_.val.node = "Block"
    /\ TopLevel(last.node.then.span) /\ TopLevel(last.node.else_.val.span)
    /\ GapAvailable(last.node.then.span.hi, last.node.else_.val.span.lo)
    /\ gapLex = <<TOK_WS, TOK_ELSE, TOK_NL>>
    /\ GapText(last.node.then.span.hi, last.node.else_.val.span.lo) = Flatten(gapLex)
    /\ last.lints = <<>>

\* both traversals of the tree are over
TwiceDone == run = 2 /\ queue = <<>> /\ ~aborted

C10_FindingSpans ==
    /\ \A j \in DOMAIN last.lints :
            last.lints[j].primary_span = last.lints[j].secondary_span
    /\ LastExpr =>
        \A j \in DOMAIN last.lints :
            LET f == last.lints[j]
            IN  \/ /\ f.rule = SUSPICIOUS_ASSIGNMENT_FORMATTING
                   /\ LastAssign
                   /\ last.node.rhs.node = "Unary"
                   /\ f.primary_span = Span(last.node.lhs.span.hi,
                                            last.node.rhs.operand.span.lo, NO_EXPANSION)
                   /\ ends_with(GapText(last.node.lhs.span.hi, last.node.rhs.span.lo), EQ_CHAR)
                   /\ (last.node.lhs.span.hi <= last.node.rhs.span.lo
                       /\ last.node.rhs.span.lo <= last.node.rhs.operand.span.lo)
                        => f.primary_span.lo <= f.primary_span.hi
                \/ /\ f.rule = SUSPICIOUS_ELSE_FORMATTING
                   /\ LastIfElse
                   /\ f.primary_span = Span(last.node.then.span.hi,
                                            last.node.else_.val.span.lo, NO_EXPANSION)
                   /\ f.primary_span.lo <= f.primary_span.hi
    /\ LastBlock =>
        \A j \in DOMAIN last.lints :
            LET f == last.lints[j]
            IN  /\ f.rule = SUSPICIOUS_ELSE_FORMATTING
                /\ \E i \in Boundaries : f.primary_span = BoundarySpan(i)
                /\ f.primary_span.lo <= f.primary_span.hi

\* an assignment Finding whose span reaches past the operator gap
C10_Witness ==
    /\ LastAssign
    /\ Len(last.lints) = 1
    /\ last.lints[1].rule = SUSPICIOUS_ASSIGNMENT_FORMATTING
    /\ last.lints[1].primary_span.lo < last.node.rhs.span.lo
    /\ last.lints[1].primary_span.hi = last.node.rhs.span.lo + 1
    /\ last.lints[1].primary_message[2] = "-"

====
